---------------------------- MODULE Spec2Model ----------------------------
(***************************************************************************)
(* Model of src/render.py: Text2ImgRender, the lazily initialised          *)
(* Playwright session (_ensure_context), the viewport resolution           *)
(* (_resolve_viewport_width) and the capture pipeline (html2pic).          *)
(*                                                                         *)
(* One html2pic invocation is one "call".  Calls are coroutines on one     *)
(* event loop: the code between two awaits runs atomically, so every       *)
(* action below is "an awaited engine operation completes, then the        *)
(* synchronous code up to the next await runs".  The engine (Playwright)   *)
(* is the environment: each awaited operation either succeeds or raises,   *)
(* and a browsing context can be closed from outside at any time.          *)
(***************************************************************************)
EXTENDS Integers, Sequences, FiniteSets, TLC

(***************************************************************************)
(* Bounds of the model.                                                    *)
(***************************************************************************)
MaxCalls == 2       \* html2pic invocations in one behaviour
MaxCloses == 1      \* contexts the environment closes in one behaviour

(***************************************************************************)
(* Program constants.                                                      *)
(***************************************************************************)
ReadLimit == 4096       \* f.read(4096)
DefaultHeight == 720    \* {"width": viewport_width, "height": 720}

\* Python's None for an object handle (handles are numbered from 1).
None == 0

\* Optional values: <<>> is None, <<v>> is the value v.
Nothing == <<>>
Some(v) == <<v>>

Min(S) == CHOOSE x \in S : \A y \in S : x <= y

(***************************************************************************)
(* ScreenshotOptions                                                       *)
(***************************************************************************)
Fields ==
    {"timeout", "type", "quality", "omit_background", "full_page", "clip",
     "animations", "caret", "scale", "viewport_width"}

\* The field defaults of the pydantic model: all None but full_page.
DefaultOptions ==
    [timeout |-> Nothing, type |-> Nothing, quality |-> Nothing,
     omit_background |-> Nothing, full_page |-> Some(TRUE), clip |-> Nothing,
     animations |-> Nothing, caret |-> Nothing, scale |-> Nothing,
     viewport_width |-> Nothing]

\* model_dump(exclude_none=True): the fields that are not None, by name.
ModelDumpExcludeNone(o) ==
    [k \in {f \in Fields : o[f] # Nothing} |-> o[k][1]]

\* dict.pop(key, None): the dict without the key, whether present or not.
Pop(d, key) == [k \in (DOMAIN d) \ {key} |-> d[k]]

\* A plausible slip: the viewport_width entry is left in the kwargs.
ScreenshotKwargsNoPop(o) == ModelDumpExcludeNone(o)

\* The keyword arguments html2pic hands to page.screenshot besides path.
ScreenshotKwargs(o) == Pop(ModelDumpExcludeNone(o), "viewport_width")

\* A plausible slip: the suffix ignores the type.
SuffixAlwaysPng(o) == "png"

\* suffix = screenshot_options.type if screenshot_options.type else "png"
Suffix(o) == IF o.type # Nothing THEN o.type[1] ELSE "png"

(***************************************************************************)
(* The HTML file.  Its text is a sequence of tokens, each a fixed string;  *)
(* "x" is one character that is none of the others, "PAD" is ReadLimit     *)
(* such characters (a long comment or style block).                        *)
(***************************************************************************)
Whitespace == {" "}
Quotes == {"\"", "'"}
Digits == {"0", "4", "8"}
Alphabet ==
    {"<meta", "name=", "viewport", "content=", "width", "=", ">", "x", "PAD"}
        \cup Whitespace \cup Quotes \cup Digits

\* A plausible slip: re.IGNORECASE is left out.
FoldNothing(tok) == tok

\* re.IGNORECASE: upper-case spellings match as their lower-case ones.
Fold(tok) ==
    CASE tok = "<META" -> "<meta"
      [] tok = "NAME=" -> "name="
      [] tok = "VIEWPORT" -> "viewport"
      [] tok = "CONTENT=" -> "content="
      [] tok = "WIDTH" -> "width"
      [] OTHER -> tok

CharLen(tok) == IF tok = "PAD" THEN ReadLimit ELSE Len(tok)

RECURSIVE TotalLen(_)
TotalLen(s) == IF s = <<>> THEN 0 ELSE CharLen(Head(s)) + TotalLen(Tail(s))

\* A plausible slip: f.read() without the limit.
ReadWhole(s, n) == s

\* f.read(n) on the decoded text: the first n characters.  A token that is
\* cut keeps only characters that match nothing on their own.
RECURSIVE ReadChars(_, _)
ReadChars(s, n) ==
    IF s = <<>> \/ n <= 0 THEN <<>>
    ELSE IF CharLen(Head(s)) <= n
         THEN <<Head(s)>> \o ReadChars(Tail(s), n - CharLen(Head(s)))
         ELSE <<IF Head(s) = "PAD" THEN "PAD" ELSE "x">>

(***************************************************************************)
(* The regular expression of _resolve_viewport_width, element by element:  *)
(* a set of admissible tokens, the least number of repetitions, and        *)
(* whether it repeats (greedily).                                          *)
(***************************************************************************)
One(S) == [set |-> S, min |-> 1, many |-> FALSE]
Star(S) == [set |-> S, min |-> 0, many |-> TRUE]
Plus(S) == [set |-> S, min |-> 1, many |-> TRUE]
NotGt == Alphabet \ {">"}
NotQuote == Alphabet \ Quotes

Pattern ==
    << One({"<meta"}), Plus(Whitespace), Star(NotGt),
       One({"name="}), One(Quotes), One({"viewport"}), One(Quotes),
       Star(NotGt),
       One({"content="}), One(Quotes), Star(NotQuote),
       One({"width"}), Star(Whitespace), One({"="}), Star(Whitespace),
       Plus(Digits),
       Star(NotQuote), One(Quotes), Star(NotGt), One({">"}) >>

\* The element that is the capture group (\d+).
GroupIndex == 16

\* How many tokens from position i on lie in S.
RECURSIVE RunLength(_, _, _)
RunLength(s, i, S) ==
    IF i <= Len(s) /\ Fold(s[i]) \in S THEN 1 + RunLength(s, i + 1, S) ELSE 0

\* Backtracking match of Pattern[p..] at position i: <<>> when there is none,
\* else <<group>>.  A repetition tries its longest run first.
RECURSIVE MatchFrom(_, _, _, _), TryRun(_, _, _, _, _)
MatchFrom(s, p, i, group) ==
    IF p > Len(Pattern) THEN <<group>>
    ELSE LET run == RunLength(s, i, Pattern[p].set)
         IN  TryRun(s, p, i, group,
                    IF Pattern[p].many THEN run ELSE IF run >= 1 THEN 1 ELSE 0)

TryRun(s, p, i, group, n) ==
    IF n < Pattern[p].min THEN <<>>
    ELSE LET g == IF p = GroupIndex THEN SubSeq(s, i, i + n - 1) ELSE group
             r == MatchFrom(s, p + 1, i + n, g)
         IN  IF r # <<>> THEN r ELSE TryRun(s, p, i, group, n - 1)

\* re.search: the match at the leftmost position that has one.
ReSearch(s) ==
    LET starts == {i \in 1..Len(s) : MatchFrom(s, 1, i, <<>>) # <<>>}
    IN  IF starts = {} THEN <<>> ELSE MatchFrom(s, 1, Min(starts), <<>>)

DigitValue == ("0" :> 0) @@ ("4" :> 4) @@ ("8" :> 8)

\* int(m[1]) on a string of decimal digits.
RECURSIVE ParseInt(_)
ParseInt(ds) ==
    IF ds = <<>> THEN 0
    ELSE 10 * ParseInt(SubSeq(ds, 1, Len(ds) - 1)) + DigitValue[ds[Len(ds)]]

(***************************************************************************)
(* _resolve_viewport_width.  The result is [raised, width]: raised is the  *)
(* exception that leaves the method ("none" when it returns), width the    *)
(* returned Optional[int].                                                 *)
(***************************************************************************)
\* open(..., encoding="utf-8") and f.read(4096): the exception, or the text.
ReadHead(file) ==
    IF ~file.exists THEN [exc |-> "OSError", text |-> <<>>]
    ELSE IF ~file.utf8 THEN [exc |-> "UnicodeDecodeError", text |-> <<>>]
    ELSE [exc |-> "none", text |-> ReadChars(file.text, ReadLimit)]

\* A plausible slip: the except clause forgets OSError.
CaughtWithoutOSError == {"UnicodeDecodeError", "re.error", "ValueError"}

\* except (OSError, UnicodeDecodeError, re.error, ValueError)
Caught == {"OSError", "UnicodeDecodeError", "re.error", "ValueError"}

\* A plausible slip: the meta tag is consulted first and wins when present.
ResolveMetaFirst(file, o) ==
    LET head == ReadHead(file)
        m == IF head.exc = "none" THEN ReSearch(head.text) ELSE <<>>
    IN  IF m # <<>> THEN [raised |-> "none", width |-> Some(ParseInt(m[1]))]
        ELSE [raised |-> "none", width |-> o.viewport_width]

ResolveViewportWidth(file, o) ==
    IF o.viewport_width # Nothing
    THEN [raised |-> "none", width |-> o.viewport_width]
    ELSE LET head == ReadHead(file)
         IN  IF head.exc # "none"
             THEN IF head.exc \in Caught
                  THEN [raised |-> "none", width |-> Nothing]
                  ELSE [raised |-> head.exc, width |-> Nothing]
             ELSE LET m == ReSearch(head.text)
                  IN  [raised |-> "none",
                       width |-> IF m # <<>> THEN Some(ParseInt(m[1]))
                                 ELSE Nothing]

(***************************************************************************)
(* generate_data_path (from .util): a fresh path with the given suffix.    *)
(***************************************************************************)
GenerateDataPath(suffix, n) == [id |-> n, suffix |-> suffix]

(***************************************************************************)
(* State.                                                                  *)
(***************************************************************************)
VARIABLES
    playwright,         \* self.playwright: an engine handle or None
    browser,            \* self.browser: a browser handle or None
    context,            \* self.context: a context handle or None
    nStart,             \* engines started so far (handles 1..nStart)
    nLaunch,            \* browsers launched so far
    nContext,           \* contexts created so far
    ctxClosed,          \* the contexts that are closed
    isClosedCallable,   \* whether a context exposes a callable is_closed
    pageCtx,            \* pageCtx[p]: the context page p was opened in
    pageOpen,           \* the pages that are open
    nPaths,             \* paths generate_data_path has handed out
    closes,             \* contexts closed from outside so far
    pc,                 \* pc[c]: the await call c is suspended at
    opts,               \* pc[c] # "idle": the screenshot_options argument
    html,               \* the file at html_file_path
    target,             \* the object the awaited method was called on
    context_closed,     \* _ensure_context's local
    probed,             \* the context handle _ensure_context looked at
    result_path,        \* html2pic's local
    page,               \* html2pic's local
    viewport_width,     \* html2pic's local
    pending,            \* the exception in flight while finally runs
    outcome,            \* what the call returned or raised
    ops,                \* ops[c]: the engine operations of call c, in order
    overlap             \* whether two calls have ever been in flight at once

session == <<playwright, browser, context>>
engine == <<nStart, nLaunch, nContext, ctxClosed, isClosedCallable, pageCtx,
            pageOpen, nPaths, closes>>
locals == <<pc, opts, html, target, context_closed, probed, result_path, page,
            viewport_width, pending, outcome, ops, overlap>>
vars == <<session, engine, locals>>

Calls == 1..MaxCalls

InFlight(c) == pc[c] \notin {"idle", "done"}

NoOptions == DefaultOptions
NoFile == [exists |-> FALSE, utf8 |-> TRUE, text |-> <<>>]
NoOutcome == [raised |-> "none", value |-> Nothing]

\* Text2ImgRender.__init__, and no call made yet.
Init ==
    /\ playwright = None /\ browser = None /\ context = None
    /\ nStart = 0 /\ nLaunch = 0 /\ nContext = 0
    /\ ctxClosed = {}
    /\ isClosedCallable \in BOOLEAN
    /\ pageCtx = <<>> /\ pageOpen = {}
    /\ nPaths = 0 /\ closes = 0
    /\ pc = [c \in Calls |-> "idle"]
    /\ opts = [c \in Calls |-> NoOptions]
    /\ html = [c \in Calls |-> NoFile]
    /\ target = [c \in Calls |-> None]
    /\ context_closed = [c \in Calls |-> FALSE]
    /\ probed = [c \in Calls |-> None]
    /\ result_path = [c \in Calls |-> Nothing]
    /\ page = [c \in Calls |-> None]
    /\ viewport_width = [c \in Calls |-> Nothing]
    /\ pending = [c \in Calls |-> "none"]
    /\ outcome = [c \in Calls |-> NoOutcome]
    /\ ops = [c \in Calls |-> <<>>]
    /\ overlap = FALSE

\* One engine operation in a call's record: what was awaited, on which object,
\* whether it returned, and what it was given or what it returned (for a
\* handle that is stored: the new handle and the one it replaces).
Entry(op, on, ok, arg) == [op |-> op, on |-> on, ok |-> ok, arg |-> arg]

Log(c, e) == ops' = [ops EXCEPT ![c] = Append(@, e)]

(***************************************************************************)
(* _ensure_context                                                         *)
(***************************************************************************)
\* A plausible slip: a context without a callable is_closed counts as closed.
ContextReportsClosedFailClosed(cx) ==
    cx # None /\ (~isClosedCallable \/ cx \in ctxClosed)

\* Lines 76-82: context_closed, for the handle cx = self.context.
ContextReportsClosed(cx) ==
    cx # None /\ isClosedCallable /\ cx \in ctxClosed

\* A plausible slip: a context is created on every call.
NeedNewContextAlways(cx, closed) == TRUE

\* A plausible slip: only an absent context is replaced.
NeedNewContextOnlyAbsent(cx, closed) == cx = None

\* Line 84: if self.context is None or context_closed
NeedNewContext(cx, closed) == cx = None \/ closed

\* A plausible slip: the browser is launched whether or not one exists.
EnsureNextAlwaysLaunch(from, pw, br, cx) ==
    IF from <= 1 /\ pw = None
    THEN [pc |-> "start", target |-> None, closed |-> FALSE, probed |-> None]
    ELSE IF from <= 2
    THEN [pc |-> "launch", target |-> pw, closed |-> FALSE, probed |-> None]
    ELSE LET closed == ContextReportsClosed(cx)
         IN  IF NeedNewContext(cx, closed)
             THEN [pc |-> "new_context", target |-> br, closed |-> closed,
                   probed |-> cx]
             ELSE [pc |-> "new_page", target |-> cx, closed |-> closed,
                   probed |-> cx]

\* The synchronous code from a line of _ensure_context (1: line 70, 2: line
\* 73, 3: line 76) to the next await, with the handles as they are then:
\* the await reached and the object its method is called on.
EnsureNext(from, pw, br, cx) ==
    IF from <= 1 /\ pw = None
    THEN [pc |-> "start", target |-> None, closed |-> FALSE, probed |-> None]
    ELSE IF from <= 2 /\ br = None
    THEN [pc |-> "launch", target |-> pw, closed |-> FALSE, probed |-> None]
    ELSE LET closed == ContextReportsClosed(cx)
         IN  IF NeedNewContext(cx, closed)
             THEN [pc |-> "new_context", target |-> br, closed |-> closed,
                   probed |-> cx]
             ELSE [pc |-> "new_page", target |-> cx, closed |-> closed,
                   probed |-> cx]

\* Call c runs on from line `from` of _ensure_context; when the method
\* returns, html2pic allocates the output path and awaits new_page on
\* self.context.
Resume(c, from, pw, br, cx, o) ==
    LET n == EnsureNext(from, pw, br, cx)
    IN  /\ pc' = [pc EXCEPT ![c] = n.pc]
        /\ target' = [target EXCEPT ![c] = n.target]
        /\ context_closed' = [context_closed EXCEPT ![c] = n.closed]
        /\ probed' = [probed EXCEPT ![c] = n.probed]
        /\ IF n.pc = "new_page"
           THEN /\ nPaths' = nPaths + 1
                /\ result_path' =
                       [result_path EXCEPT
                            ![c] = Some(GenerateDataPath(Suffix(o), nPaths + 1))]
           ELSE UNCHANGED <<nPaths, result_path>>

\* html2pic after new_context returned: the path, then new_page.
ToNewPage(c, cx, o) ==
    /\ pc' = [pc EXCEPT ![c] = "new_page"]
    /\ target' = [target EXCEPT ![c] = cx]
    /\ nPaths' = nPaths + 1
    /\ result_path' =
           [result_path EXCEPT
                ![c] = Some(GenerateDataPath(Suffix(o), nPaths + 1))]
    /\ UNCHANGED <<context_closed, probed>>

\* A plausible slip: the operation that raised is awaited again.
RaiseRetry(c, exc) ==
    /\ pc' = [pc EXCEPT ![c] = exc]
    /\ UNCHANGED outcome

\* An exception leaves html2pic.
Raise(c, exc) ==
    /\ pc' = [pc EXCEPT ![c] = "done"]
    /\ outcome' = [outcome EXCEPT ![c] = [raised |-> exc, value |-> Nothing]]

\* html2pic(html_file_path, screenshot_options) is invoked and runs to its
\* first await.  Calls are numbered in the order they are made.
Call(c, O, F) ==
    /\ pc[c] = "idle"
    /\ c > 1 => pc[c - 1] # "idle"
    /\ \E o \in O, f \in F :
          /\ opts' = [opts EXCEPT ![c] = o]
          /\ html' = [html EXCEPT ![c] = f]
          /\ Resume(c, 1, playwright, browser, context, o)
    /\ overlap' = (overlap \/ \E d \in Calls : InFlight(d))
    /\ UNCHANGED <<session, nStart, nLaunch, nContext, ctxClosed,
                   isClosedCallable, pageCtx, pageOpen, closes, page,
                   viewport_width, pending, outcome, ops>>

\* self.playwright = await async_playwright().start()
StartOk(c) ==
    /\ pc[c] = "start"
    /\ nStart' = nStart + 1
    /\ playwright' = nStart + 1
    /\ Log(c, Entry("start", None, TRUE, [new |-> nStart + 1, old |-> playwright]))
    /\ Resume(c, 2, nStart + 1, browser, context, opts[c])
    /\ UNCHANGED <<browser, context, nLaunch, nContext, ctxClosed,
                   isClosedCallable, pageCtx, pageOpen, closes, opts, html,
                   page, viewport_width, pending, outcome, overlap>>

StartFail(c) ==
    /\ pc[c] = "start"
    /\ Log(c, Entry("start", None, FALSE, None))
    /\ Raise(c, "start")
    /\ UNCHANGED <<session, engine, opts, html, target, context_closed,
                   probed, result_path, page, viewport_width, pending, overlap>>

\* self.browser = await self.playwright.chromium.launch()
LaunchOk(c) ==
    /\ pc[c] = "launch"
    /\ nLaunch' = nLaunch + 1
    /\ browser' = nLaunch + 1
    /\ Log(c, Entry("launch", target[c], TRUE, [new |-> nLaunch + 1, old |-> browser]))
    /\ Resume(c, 3, playwright, nLaunch + 1, context, opts[c])
    /\ UNCHANGED <<playwright, context, nStart, nContext, ctxClosed,
                   isClosedCallable, pageCtx, pageOpen, closes, opts, html,
                   page, viewport_width, pending, outcome, overlap>>

\* A plausible slip: a failed launch throws the engine handle away.
LaunchFailResetsEngine(c) ==
    /\ pc[c] = "launch"
    /\ Log(c, Entry("launch", target[c], FALSE, None))
    /\ Raise(c, "launch")
    /\ playwright' = None
    /\ UNCHANGED <<browser, context, engine, opts, html, target, context_closed,
                   probed, result_path, page, viewport_width, pending, overlap>>

LaunchFail(c) ==
    /\ pc[c] = "launch"
    /\ Log(c, Entry("launch", target[c], FALSE, None))
    /\ Raise(c, "launch")
    /\ UNCHANGED <<session, engine, opts, html, target, context_closed,
                   probed, result_path, page, viewport_width, pending, overlap>>

\* self.context = await self.browser.new_context(device_scale_factor=1.8)
NewContextOk(c) ==
    /\ pc[c] = "new_context"
    /\ nContext' = nContext + 1
    /\ context' = nContext + 1
    /\ Log(c, Entry("new_context", target[c], TRUE,
                    [new |-> nContext + 1, old |-> context]))
    /\ ToNewPage(c, nContext + 1, opts[c])
    /\ UNCHANGED <<playwright, browser, nStart, nLaunch, ctxClosed,
                   isClosedCallable, pageCtx, pageOpen, closes, opts, html,
                   page, viewport_width, pending, outcome, overlap>>

\* A plausible slip: a failed new_context throws the browser handle away.
NewContextFailDropsBrowser(c) ==
    /\ pc[c] = "new_context"
    /\ Log(c, Entry("new_context", target[c], FALSE, None))
    /\ Raise(c, "new_context")
    /\ browser' = None
    /\ UNCHANGED <<playwright, context, engine, opts, html, target, context_closed,
                   probed, result_path, page, viewport_width, pending, overlap>>

\* A plausible slip: a failed new_context clears self.context.
NewContextFailDropsContext(c) ==
    /\ pc[c] = "new_context"
    /\ Log(c, Entry("new_context", target[c], FALSE, None))
    /\ Raise(c, "new_context")
    /\ context' = None
    /\ UNCHANGED <<playwright, browser, engine, opts, html, target, context_closed,
                   probed, result_path, page, viewport_width, pending, overlap>>

NewContextFail(c) ==
    /\ pc[c] = "new_context"
    /\ Log(c, Entry("new_context", target[c], FALSE, None))
    /\ Raise(c, "new_context")
    /\ UNCHANGED <<session, engine, opts, html, target, context_closed,
                   probed, result_path, page, viewport_width, pending, overlap>>

(***************************************************************************)
(* html2pic                                                                *)
(***************************************************************************)
\* page = await self.context.new_page(), then the viewport is resolved and
\* either set_viewport_size or, inside the try, goto is awaited.  A closed
\* context opens no page.
NewPageOk(c) ==
    /\ pc[c] = "new_page"
    /\ target[c] \notin ctxClosed
    /\ LET p == Len(pageCtx) + 1
           r == ResolveViewportWidth(html[c], opts[c])
       IN  /\ pageCtx' = Append(pageCtx, target[c])
           /\ pageOpen' = pageOpen \cup {p}
           /\ page' = [page EXCEPT ![c] = p]
           /\ Log(c, Entry("new_page", target[c], TRUE, p))
           /\ IF r.raised # "none"
              THEN /\ Raise(c, r.raised)
                   /\ UNCHANGED viewport_width
              ELSE /\ viewport_width' = [viewport_width EXCEPT ![c] = r.width]
                   /\ pc' = [pc EXCEPT
                                ![c] = IF r.width # Nothing THEN "set_viewport"
                                       ELSE "goto"]
                   /\ UNCHANGED outcome
    /\ UNCHANGED <<session, nStart, nLaunch, nContext, ctxClosed,
                   isClosedCallable, nPaths, closes, opts, html, target,
                   context_closed, probed, result_path, pending, overlap>>

NewPageFail(c) ==
    /\ pc[c] = "new_page"
    /\ Log(c, Entry("new_page", target[c], FALSE, None))
    /\ Raise(c, "new_page")
    /\ UNCHANGED <<session, engine, opts, html, target, context_closed,
                   probed, result_path, page, viewport_width, pending, overlap>>

\* await page.set_viewport_size({"width": viewport_width, "height": 720}),
\* which is outside the try.
SetViewportOk(c) ==
    /\ pc[c] = "set_viewport"
    /\ page[c] \in pageOpen
    /\ Log(c, Entry("set_viewport", page[c], TRUE,
                    [width |-> viewport_width[c][1], height |-> DefaultHeight]))
    /\ pc' = [pc EXCEPT ![c] = "goto"]
    /\ UNCHANGED <<session, engine, opts, html, target, context_closed,
                   probed, result_path, page, viewport_width, pending, outcome,
                   overlap>>

SetViewportFail(c) ==
    /\ pc[c] = "set_viewport"
    /\ Log(c, Entry("set_viewport", page[c], FALSE,
                    [width |-> viewport_width[c][1], height |-> DefaultHeight]))
    /\ Raise(c, "set_viewport")
    /\ UNCHANGED <<session, engine, opts, html, target, context_closed,
                   probed, result_path, page, viewport_width, pending, overlap>>

\* try: await page.goto(f"file://{html_file_path}")
GotoOk(c) ==
    /\ pc[c] = "goto"
    /\ page[c] \in pageOpen
    /\ Log(c, Entry("goto", page[c], TRUE, None))
    /\ pc' = [pc EXCEPT ![c] = "screenshot"]
    /\ UNCHANGED <<session, engine, opts, html, target, context_closed,
                   probed, result_path, page, viewport_width, pending, outcome,
                   overlap>>

\* A plausible slip: goto is awaited before the try, so that its exception
\* leaves html2pic at once.
GotoFailNoFinally(c) ==
    /\ pc[c] = "goto"
    /\ Log(c, Entry("goto", page[c], FALSE, None))
    /\ Raise(c, "goto")
    /\ UNCHANGED <<session, engine, opts, html, target, context_closed,
                   probed, result_path, page, viewport_width, pending, overlap>>

\* A plausible slip: the exception of goto is swallowed and the screenshot
\* is taken all the same.
GotoFailScreenshotAnyway(c) ==
    /\ pc[c] = "goto"
    /\ Log(c, Entry("goto", page[c], FALSE, None))
    /\ pc' = [pc EXCEPT ![c] = "screenshot"]
    /\ UNCHANGED <<session, engine, opts, html, target, context_closed,
                   probed, result_path, page, viewport_width, pending, outcome,
                   overlap>>

\* goto raises: the finally clause runs with the exception in flight.
GotoFail(c) ==
    /\ pc[c] = "goto"
    /\ Log(c, Entry("goto", page[c], FALSE, None))
    /\ pending' = [pending EXCEPT ![c] = "goto"]
    /\ pc' = [pc EXCEPT ![c] = "close"]
    /\ UNCHANGED <<session, engine, opts, html, target, context_closed,
                   probed, result_path, page, viewport_width, outcome, overlap>>

\* await page.screenshot(path=result_path, **screenshot_kwargs)
ScreenshotOk(c) ==
    /\ pc[c] = "screenshot"
    /\ page[c] \in pageOpen
    /\ Log(c, Entry("screenshot", page[c], TRUE,
                    [path |-> result_path[c][1],
                     kwargs |-> ScreenshotKwargs(opts[c])]))
    /\ pc' = [pc EXCEPT ![c] = "close"]
    /\ UNCHANGED <<session, engine, opts, html, target, context_closed,
                   probed, result_path, page, viewport_width, pending, outcome,
                   overlap>>

ScreenshotFail(c) ==
    /\ pc[c] = "screenshot"
    /\ Log(c, Entry("screenshot", page[c], FALSE,
                    [path |-> result_path[c][1],
                     kwargs |-> ScreenshotKwargs(opts[c])]))
    /\ pending' = [pending EXCEPT ![c] = "screenshot"]
    /\ pc' = [pc EXCEPT ![c] = "close"]
    /\ UNCHANGED <<session, engine, opts, html, target, context_closed,
                   probed, result_path, page, viewport_width, outcome, overlap>>

\* finally: await page.close(); then the exception in flight is raised
\* again, or result_path is returned.
Close(c) ==
    /\ pc[c] = "close"
    /\ pageOpen' = pageOpen \ {page[c]}
    /\ Log(c, Entry("close", page[c], TRUE, None))
    /\ pc' = [pc EXCEPT ![c] = "done"]
    /\ outcome' = [outcome EXCEPT
                      ![c] = IF pending[c] # "none"
                             THEN [raised |-> pending[c], value |-> Nothing]
                             ELSE [raised |-> "none", value |-> result_path[c]]]
    /\ UNCHANGED <<session, nStart, nLaunch, nContext, ctxClosed,
                   isClosedCallable, pageCtx, nPaths, closes, opts, html,
                   target, context_closed, probed, result_path, page,
                   viewport_width, pending, overlap>>

(***************************************************************************)
(* The environment: a context is closed from outside the pipeline (the     *)
(* browser crashes, or another owner of the handle closes it).  Its pages  *)
(* close with it.                                                          *)
(***************************************************************************)
CloseContext(x) ==
    /\ closes < MaxCloses
    /\ x \in (1..nContext) \ ctxClosed
    /\ ctxClosed' = ctxClosed \cup {x}
    /\ pageOpen' = {p \in pageOpen : pageCtx[p] # x}
    /\ closes' = closes + 1
    /\ UNCHANGED <<session, nStart, nLaunch, nContext, isClosedCallable,
                   pageCtx, nPaths, locals>>

(***************************************************************************)
(* Inputs.                                                                 *)
(***************************************************************************)
Q == "\""
MetaTag(content) ==
    <<"<meta", " ", "name=", Q, "viewport", Q, " ", "content=", Q>>
        \o content \o <<Q, ">">>
TextFile(t) == [exists |-> TRUE, utf8 |-> TRUE, text |-> t]

BadUtf8File == [exists |-> TRUE, utf8 |-> FALSE, text |-> <<>>]

\* The inputs of the calls that run concurrently.
OptionSamples ==
    { DefaultOptions,
      [DefaultOptions EXCEPT !.viewport_width = Some(480),
                             !.type = Some("jpeg"), !.quality = Some(80)] }

FileSamples ==
    { TextFile(MetaTag(<<"width", "=", "8", "0", "0">>)), NoFile }

\* Every combination of set and unset fields.
OptionsAll ==
    [timeout : {Nothing, Some(30)},
     type : {Nothing, Some("png"), Some("jpeg")},
     quality : {Nothing, Some(80)},
     omit_background : {Nothing, Some(TRUE)},
     full_page : {Nothing, Some(TRUE)},
     clip : {Nothing, Some([x |-> 0, y |-> 0, width |-> 8, height |-> 8])},
     animations : {Nothing, Some("disabled")},
     caret : {Nothing, Some("hide")},
     scale : {Nothing, Some("css")},
     viewport_width : {Nothing, Some(480), Some(800)}]

\* Files with and without a meta viewport tag, in the head or behind
\* ReadLimit characters, well formed and not, readable and not.
Contents ==
    { <<"width", "=", "8", "0", "0">>,
      <<"width", "=", "4", "8", "0", "x", "x">>,
      <<"WIDTH", " ", "=", " ", "4", "8">>,
      <<"width", "=", "4", "x", "width", "=", "8">>,
      <<"width", "=", "x">>,
      <<"x", "=", "4">>,
      <<>> }

Tags ==
    UNION { { MetaTag(k),
              <<"<META", " ", "NAME=", "'", "VIEWPORT", "'", "CONTENT=", "'">>
                  \o k \o <<"'", "x", ">">>,
              <<"<meta", " ", "content=", Q>> \o k
                  \o <<Q, " ", "name=", Q, "viewport", Q, ">">>,
              <<"<meta", " ", "name=", Q, "viewport", Q, " ", "content=", Q>>
                  \o k \o <<Q>>,
              <<"<meta", " ", "name=", Q, "x", Q, " ", "content=", Q>>
                  \o k \o <<Q, ">">> } : k \in Contents }

FilesAll ==
    {NoFile, BadUtf8File, TextFile(<<>>), TextFile(<<"x", ">">>)}
        \cup {TextFile(pre \o t) : pre \in {<<>>, <<"x">>, <<"PAD">>}, t \in Tags}
        \cup {TextFile(t \o <<"PAD">>) : t \in Tags}

FileSpecOptions ==
    OptionSamples \cup {[DefaultOptions EXCEPT !.viewport_width = Some(800)]}

Step(c, O, F) ==
    \/ Call(c, O, F)
    \/ StartOk(c) \/ StartFail(c)
    \/ LaunchOk(c) \/ LaunchFail(c)
    \/ NewContextOk(c) \/ NewContextFail(c)
    \/ NewPageOk(c) \/ NewPageFail(c)
    \/ SetViewportOk(c) \/ SetViewportFail(c)
    \/ GotoOk(c) \/ GotoFail(c)
    \/ ScreenshotOk(c) \/ ScreenshotFail(c)
    \/ Close(c)

\* Any number of calls, interleaved at their awaits, with a context that may
\* be closed under them.
Next ==
    \/ \E c \in Calls : Step(c, OptionSamples, FileSamples)
    \/ \E x \in 1..nContext : CloseContext(x)

Spec == Init /\ [][Next]_vars

\* One call on a fresh instance, for every value of the options; the engine
\* does not fail.
NextOptions ==
    \/ Call(1, OptionsAll, FileSamples)
    \/ StartOk(1) \/ LaunchOk(1) \/ NewContextOk(1) \/ NewPageOk(1)
    \/ SetViewportOk(1) \/ GotoOk(1) \/ ScreenshotOk(1) \/ Close(1)

SpecOptions == Init /\ [][NextOptions]_vars

\* One call on a fresh instance, for every file.
NextFiles == Step(1, FileSpecOptions, FilesAll)

SpecFiles == Init /\ [][NextFiles]_vars

TypeOK ==
    /\ playwright \in 0..nStart /\ browser \in 0..nLaunch
    /\ context \in 0..nContext
    /\ ctxClosed \subseteq 1..nContext
    /\ pageOpen \subseteq 1..Len(pageCtx)

(***************************************************************************)
(* Properties.                                                             *)
(***************************************************************************)
EnsureOps == {"start", "launch", "new_context"}
PageOps == {"set_viewport", "goto", "screenshot", "close"}

Has(c, op) == \E i \in DOMAIN ops[c] : ops[c][i].op = op
Count(c, op) == Cardinality({i \in DOMAIN ops[c] : ops[c][i].op = op})
NoFailure == \A c \in Calls : \A i \in DOMAIN ops[c] : ops[c][i].ok
NoEnsureOps(c) == \A i \in DOMAIN ops[c] : ops[c][i].op \notin EnsureOps

\* C1: when a call has returned or raised, the page it opened is closed.
C1_PageClosedOnEveryExit ==
    \A c \in Calls :
        pc[c] = "done" /\ page[c] # None => page[c] \notin pageOpen

\* C2: the keys handed to page.screenshot besides path are exactly the
\* fields of the options that are not None, less viewport_width, which is
\* never among them.
C2_ForwardedKeys ==
    \A c \in Calls : \A i \in DOMAIN ops[c] :
        ops[c][i].op = "screenshot" =>
            /\ DOMAIN ops[c][i].arg.kwargs =
                   {f \in Fields : opts[c][f] # Nothing} \ {"viewport_width"}
            /\ "viewport_width" \notin DOMAIN ops[c][i].arg.kwargs
            /\ \A k \in DOMAIN ops[c][i].arg.kwargs :
                   ops[c][i].arg.kwargs[k] = opts[c][k][1]

C2_Witness ==
    \E c \in Calls : \E i \in DOMAIN ops[c] :
        /\ ops[c][i].op = "screenshot"
        /\ opts[c].viewport_width # Nothing
        /\ opts[c].quality # Nothing
        /\ opts[c].timeout = Nothing

\* The state part of C3.
C3_Serial ==
    ~overlap =>
        /\ nStart <= 1 /\ nLaunch <= 1
        /\ \A c \in Calls : \A i \in DOMAIN ops[c] :
               ops[c][i].op = "new_context" /\ ops[c][i].ok =>
                   \/ ops[c][i].arg.old = None
                   \/ isClosedCallable /\ ops[c][i].arg.old \in ctxClosed
        /\ NoFailure =>
               /\ Cardinality({c \in Calls : Has(c, "start")}) <= 1
               /\ Cardinality({c \in Calls : Has(c, "launch")}) <= 1
               /\ \A c \in Calls :
                      Count(c, "start") <= 1 /\ Count(c, "launch") <= 1

\* The step part of C3: a call made on a complete, open session.
C3_Idempotent ==
    \A c \in Calls :
        (/\ pc[c] = "idle" /\ pc'[c] # "idle"
         /\ playwright # None /\ browser # None /\ context # None
         /\ ~(isClosedCallable /\ context \in ctxClosed))
        => /\ pc'[c] = "new_page" /\ target'[c] = context
           /\ ops'[c] = <<>>
           /\ UNCHANGED <<session, nStart, nLaunch, nContext>>

\* C3: while calls are made one at a time, the engine is started and the
\* browser launched at most once (and, when nothing fails, attempted at most
\* once), and a context is only ever stored over an absent one or one that
\* reports itself closed; a call made when engine, browser and a context
\* that does not report itself closed exist goes straight to new_page on
\* that context and changes no handle.
C3_SessionReuse == []C3_Serial /\ [][C3_Idempotent]_vars

C3_Witness ==
    /\ ~overlap /\ NoFailure
    /\ pc[1] = "done" /\ pc[2] = "done"
    /\ outcome[2].raised = "none"
    /\ NoEnsureOps(2)
    /\ nStart = 1 /\ nLaunch = 1 /\ nContext = 1

\* The call found its context reporting closed, with engine and browser there.
CalledOnClosed(c) ==
    /\ pc[c] # "idle" /\ context_closed[c]
    /\ ~Has(c, "start") /\ ~Has(c, "launch")

\* The state part of C4.
C4_Recreated ==
    \A c \in Calls :
        CalledOnClosed(c) =>
            /\ \/ ops[c] = <<>> /\ pc[c] = "new_context"
               \/ ops[c] # <<>> /\ ops[c][1].op = "new_context"
            /\ pc[c] = "new_page" => target[c] # probed[c]
            /\ \A i \in DOMAIN ops[c] :
                   ops[c][i].op = "new_page" =>
                       /\ i = 2 /\ ops[c][1].ok
                       /\ ops[c][i].on = ops[c][1].arg.new
                       /\ ops[c][i].on # probed[c]
            /\ outcome[c].raised # "none" =>
                   LET k == IF pending[c] # "none" THEN Len(ops[c]) - 1
                            ELSE Len(ops[c])
                   IN  /\ ~ops[c][k].ok
                       /\ ops[c][k].op = outcome[c].raised
                       /\ ops[c][k].op = "new_page" => ops[c][k].on \notin {probed[c]}

\* The step part of C4: the call itself.
C4_OnCall ==
    \A c \in Calls :
        (/\ pc[c] = "idle" /\ pc'[c] # "idle"
         /\ context # None /\ isClosedCallable /\ context \in ctxClosed)
        => /\ pc'[c] = "new_context" /\ target'[c] = browser
           /\ context_closed'[c] /\ probed'[c] = context
           /\ UNCHANGED <<session, nStart, nLaunch, nContext>>

\* C4: a call made while the context reports itself closed awaits
\* new_context first, without start or launch, opens its page in the context
\* it created and never in the closed one, and raises nothing but the
\* failure of an operation it awaited on a live object.
C4_ClosedContextReplaced == []C4_Recreated /\ [][C4_OnCall]_vars

C4_Witness ==
    \E c \in Calls :
        /\ CalledOnClosed(c) /\ pc[c] = "done"
        /\ outcome[c].raised = "none"
        /\ pageCtx[page[c]] # probed[c]
        /\ probed[c] \in ctxClosed

\* The call was made on a session with engine, browser and usable context.
EstablishedAtCall(c) ==
    /\ pc[c] # "idle"
    /\ IF ops[c] = <<>> THEN pc[c] = "new_page" ELSE ops[c][1].op = "new_page"

\* C5: calls made on an established session whose context stays open touch
\* only the page they opened, each page is closed exactly once, by the call
\* that opened it, and none of them starts, launches or creates a context.
C5_PageIsolation ==
    ctxClosed = {} =>
        \A c \in Calls :
            EstablishedAtCall(c) =>
                /\ NoEnsureOps(c)
                /\ \A i \in DOMAIN ops[c] :
                       ops[c][i].op \in PageOps =>
                           /\ page[c] # None /\ ops[c][i].on = page[c]
                           /\ ops[c][1].ok /\ ops[c][1].arg = page[c]
                /\ \A d \in Calls :
                       d # c /\ page[c] # None => page[d] # page[c]
                /\ Count(c, "close") <= 1
                /\ pc[c] = "done" /\ page[c] # None => Count(c, "close") = 1

\* The part of C5 that is about isolation alone: whatever fails, a call
\* awaits page operations only on the page it opened, and closes it at most
\* once.
PagesAreIsolated ==
    \A c \in Calls :
        /\ \A i \in DOMAIN ops[c] :
               ops[c][i].op \in PageOps =>
                   /\ page[c] # None /\ ops[c][i].on = page[c]
        /\ \A d \in Calls : d # c /\ page[c] # None => page[d] # page[c]
        /\ Count(c, "close") <= 1
        /\ EstablishedAtCall(c) => NoEnsureOps(c)

\* C6: while calls are made one at a time the browser is launched at most
\* once, and exactly once as soon as a call has a page; calls in flight
\* together can launch it twice (the witness).
C6_SerialLaunchesOnce ==
    ~overlap =>
        /\ nLaunch <= 1
        /\ (\E c \in Calls : /\ pc[c] \notin {"idle", "start", "launch"}
                              /\ (page[c] # None \/ NoFailure))
               => nLaunch = 1

C6_Witness == overlap /\ nLaunch >= 2 /\ browser = 2

\* No width was given, and the file yields none.
InferenceFails(c) ==
    /\ opts[c].viewport_width = Nothing
    /\ \/ ReadHead(html[c]).exc # "none"
       \/ ReSearch(ReadHead(html[c]).text) = <<>>

\* C7: with viewport_width unset, a file that cannot be opened, decoded or
\* matched resolves to None like a file without a meta tag: the call goes
\* on to goto and screenshot without set_viewport_size, and no call ever
\* raises anything but the failure of an awaited engine operation.
C7_InferenceNeverFails ==
    \A c \in Calls :
        /\ outcome[c].raised \in
               {"none", "start", "launch", "new_context", "new_page",
                "set_viewport", "goto", "screenshot"}
        /\ InferenceFails(c) /\ page[c] # None =>
               /\ viewport_width[c] = Nothing
               /\ ~Has(c, "set_viewport")
               /\ pc[c] \in {"goto", "screenshot", "close", "done"}
               /\ outcome[c].raised \in {"none", "goto", "screenshot"}
               /\ pc[c] = "done" /\ pending[c] = "none" =>
                      outcome[c].value = result_path[c]

C7_Witness ==
    \E c \in Calls :
        /\ opts[c].viewport_width = Nothing
        /\ ReadHead(html[c]).exc = "OSError"
        /\ pc[c] = "done" /\ outcome[c].raised = "none"
        /\ Has(c, "goto") /\ Has(c, "screenshot")

\* C8: with viewport_width = W the resolved width is W and the width given
\* to set_viewport_size is W, whatever the file holds.
C8_ExplicitWidthWins ==
    \A c \in Calls :
        opts[c].viewport_width # Nothing /\ page[c] # None =>
            /\ viewport_width[c] = opts[c].viewport_width
            /\ pc[c] = "set_viewport" \/ Has(c, "set_viewport")
            /\ \A i \in DOMAIN ops[c] :
                   ops[c][i].op = "set_viewport" =>
                       /\ ops[c][i].arg.width = opts[c].viewport_width[1]
                       /\ ops[c][i].arg.height = DefaultHeight
                       /\ ops[c][i].on = page[c]

C8_Witness ==
    \E c \in Calls : \E i \in DOMAIN ops[c] :
        /\ opts[c].viewport_width = Some(480)
        /\ ReadHead(html[c]).exc = "none"
        /\ ReSearch(ReadHead(html[c]).text) = <<(<<"8", "0", "0">>)>>
        /\ ops[c][i].op = "set_viewport" /\ ops[c][i].ok
        /\ ops[c][i].arg.width = 480

\* C9: a failed start, launch or new_context is the last operation of its
\* call: it was awaited once, the call has raised that failure, and it has
\* opened no page.
C9_InitFailurePropagates ==
    \A c \in Calls : \A i \in DOMAIN ops[c] :
        ops[c][i].op \in EnsureOps /\ ~ops[c][i].ok =>
            /\ i = Len(ops[c])
            /\ Count(c, ops[c][i].op) = 1
            /\ pc[c] = "done"
            /\ outcome[c] = [raised |-> ops[c][i].op, value |-> Nothing]
            /\ page[c] = None
            /\ \A j \in DOMAIN ops[c] :
                   ops[c][j].op \notin {"new_page"} \cup PageOps

C9_Witness ==
    \E c \in Calls :
        /\ pc[c] = "done" /\ outcome[c].raised = "launch"
        /\ Len(ops[c]) = 2 /\ ops[c][1].op = "start" /\ ops[c][1].ok

\* The call raised the failure of its goto or screenshot.
NavigationFailed(c) ==
    pc[c] = "done" /\ outcome[c].raised \in {"goto", "screenshot"}

\* The state part of C10.
C10_AfterFailure ==
    \A c \in Calls :
        /\ pending[c] # "none" /\ pc[c] # "done" =>
               pc[c] = "close" /\ outcome[c] = NoOutcome
        /\ NavigationFailed(c) =>
               /\ page[c] # None /\ page[c] \notin pageOpen
               /\ ops[c][Len(ops[c])].op = "close"
               /\ ops[c][Len(ops[c])].on = page[c]
               /\ ~ops[c][Len(ops[c]) - 1].ok
               /\ ops[c][Len(ops[c]) - 1].op = outcome[c].raised
               /\ outcome[c].value = Nothing
               /\ playwright # None /\ browser # None /\ context # None
        /\ (/\ NavigationFailed(c) /\ ~overlap /\ c + 1 \in Calls
            /\ ~(isClosedCallable /\ ctxClosed # {}))
           => NoEnsureOps(c + 1)

\* The step part of C10: the steps of a call from goto on.
C10_HandlesKept ==
    \A c \in Calls :
        pc[c] \in {"goto", "screenshot", "close"} /\ pc'[c] # pc[c] =>
            UNCHANGED <<session, nStart, nLaunch, nContext>>

\* C10: a call whose goto or screenshot failed raises that failure only
\* once its page is closed, returns no path, and changes no session handle
\* from the failure on; the next call, made after it, awaits no start,
\* launch or new_context unless the context reports itself closed.
C10_FailureLeavesSession == []C10_AfterFailure /\ [][C10_HandlesKept]_vars

C10_Witness ==
    /\ ~overlap
    /\ NavigationFailed(1) /\ outcome[1].raised = "goto"
    /\ pc[2] = "done" /\ outcome[2].raised = "none"
    /\ NoEnsureOps(2)

\* Contents that hold width=<digits>, with the numbers they hold and the
\* last of them.
WidthContents ==
    { [content |-> <<"width", "=", "8", "0", "0">>,
       widths |-> {800}, last |-> 800],
      [content |-> <<"width", "=", "4", "8", "0", "x", "x">>,
       widths |-> {480}, last |-> 480],
      [content |-> <<"WIDTH", " ", "=", " ", "4", "8">>,
       widths |-> {48}, last |-> 48],
      [content |-> <<"width", "=", "4", "x", "width", "=", "8">>,
       widths |-> {4, 8}, last |-> 8] }

\* The two spellings of a tag with name before content, and the tag with
\* content before name.
NameFirstTags(k) ==
    { MetaTag(k),
      <<"<META", " ", "NAME=", "'", "VIEWPORT", "'", "CONTENT=", "'">>
          \o k \o <<"'", "x", ">">> }
ContentFirstTags(k) ==
    { <<"<meta", " ", "content=", Q>> \o k
          \o <<Q, " ", "name=", Q, "viewport", Q, ">">> }

\* Files whose first ReadLimit characters hold the whole tag.
InHead(tags, w) ==
    {[file |-> TextFile(t), widths |-> w.widths, last |-> w.last] : t \in tags}
        \cup {[file |-> TextFile(<<"x">> \o t), widths |-> w.widths,
               last |-> w.last] : t \in tags}
        \cup {[file |-> TextFile(t \o <<"PAD">>), widths |-> w.widths,
               last |-> w.last] : t \in tags}

NameFirstWidthFiles ==
    UNION {InHead(NameFirstTags(w.content), w) : w \in WidthContents}
ContentFirstWidthFiles ==
    UNION {InHead(ContentFirstTags(w.content), w) : w \in WidthContents}

\* The call has its page and has resolved the width to w: w is the local,
\* and set_viewport_size is awaited, or was, once, with w and DefaultHeight.
ViewportSetTo(c, w) ==
    /\ viewport_width[c] = Some(w)
    /\ pc[c] = "set_viewport" \/ Has(c, "set_viewport")
    /\ Count(c, "set_viewport") <= 1
    /\ \A i \in DOMAIN ops[c] :
           ops[c][i].op = "set_viewport" =>
               /\ ops[c][i].on = page[c]
               /\ ops[c][i].arg = [width |-> w, height |-> DefaultHeight]

\* C11 as stated: whenever the part of the file that is read holds a meta
\* viewport tag whose content has width=<digits>, in either order of its
\* attributes, the width resolves to a number of that content and the
\* viewport is set to it with height 720.
C11_AnyMetaViewportTag ==
    \A c \in Calls :
        \A e \in NameFirstWidthFiles \cup ContentFirstWidthFiles :
            (/\ opts[c].viewport_width = Nothing /\ page[c] # None
             /\ html[c] = e.file)
            => \E w \in e.widths : ViewportSetTo(c, w)

\* C11 as amended: a tag with name="viewport" before content resolves to
\* the last width=<digits> of its content, and the viewport is set to that
\* width and height 720; a tag with content before name resolves to nothing.
C11_NameBeforeContent ==
    \A c \in Calls :
        opts[c].viewport_width = Nothing /\ page[c] # None =>
            /\ \A e \in NameFirstWidthFiles :
                   html[c] = e.file => ViewportSetTo(c, e.last)
            /\ \A e \in ContentFirstWidthFiles :
                   html[c] = e.file =>
                       viewport_width[c] = Nothing /\ ~Has(c, "set_viewport")

C11_Witness ==
    \E c \in Calls : \E i \in DOMAIN ops[c] :
        /\ opts[c].viewport_width = Nothing
        /\ html[c] = TextFile(MetaTag(<<"width", "=", "4", "8", "0", "x", "x">>)
                                  \o <<"PAD">>)
        /\ ops[c][i].op = "set_viewport" /\ ops[c][i].ok
        /\ ops[c][i].arg = [width |-> 480, height |-> DefaultHeight]
        /\ pc[c] = "done" /\ outcome[c].raised = "none"

\* The files that yield no meta viewport width: every file but those whose
\* head holds a whole name-before-content viewport tag with width=<digits>.
\* They are the missing and the undecodable file, files without a tag,
\* tags without digits after width=, tags of another name, tags that are
\* not terminated, tags beyond the first ReadLimit characters and tags with
\* content before name.
NoWidthFiles == FilesAll \ {e.file : e \in NameFirstWidthFiles}

\* C12: with viewport_width unset and a file that yields no meta viewport
\* width, the width resolves to None, set_viewport_size is never awaited on
\* the call's page, goto follows new_page directly, and a call that returns
\* has navigated and taken the screenshot on its page.
C12_NoViewportOverride ==
    \A c \in Calls :
        (/\ opts[c].viewport_width = Nothing /\ html[c] \in NoWidthFiles
         /\ page[c] # None)
        => /\ viewport_width[c] = Nothing
           /\ \A i \in DOMAIN ops[c] : ops[c][i].op # "set_viewport"
           /\ pc[c] \in {"goto", "screenshot", "close", "done"}
           /\ \A i \in DOMAIN ops[c] :
                  ops[c][i].op = "new_page" /\ i < Len(ops[c]) =>
                      ops[c][i + 1].op = "goto" /\ ops[c][i + 1].on = page[c]
           /\ pc[c] = "done" /\ outcome[c].raised = "none" =>
                  \E i, j \in DOMAIN ops[c] :
                      /\ i < j
                      /\ ops[c][i] = Entry("goto", page[c], TRUE, None)
                      /\ ops[c][j].op = "screenshot" /\ ops[c][j].ok
                      /\ ops[c][j].on = page[c]

C12_Witness ==
    \E c \in Calls :
        /\ opts[c].viewport_width = Nothing
        /\ html[c] = TextFile(<<"PAD">> \o MetaTag(<<"width", "=", "8", "0", "0">>))
        /\ viewport_width[c] = Nothing
        /\ pc[c] = "done" /\ outcome[c].raised = "none"
        /\ Has(c, "screenshot") /\ ~Has(c, "set_viewport")

\* C13: a call that returns returns the very path it gave to
\* page.screenshot, and that path was allocated with the suffix options.type
\* when the type is set (png or jpeg) and png when it is not.
C13_ReturnsScreenshotPath ==
    \A c \in Calls :
        pc[c] = "done" /\ outcome[c].raised = "none" =>
            /\ outcome[c].value # Nothing
            /\ Count(c, "screenshot") = 1
            /\ \A i \in DOMAIN ops[c] :
                   ops[c][i].op = "screenshot" =>
                       /\ ops[c][i].ok
                       /\ outcome[c].value = Some(ops[c][i].arg.path)
            /\ outcome[c].value[1].suffix \in {"png", "jpeg"}
            /\ opts[c].type # Nothing =>
                   outcome[c].value[1].suffix = opts[c].type[1]
            /\ opts[c].type = Nothing => outcome[c].value[1].suffix = "png"

C13_Witness ==
    \E c \in Calls : \E i \in DOMAIN ops[c] :
        /\ opts[c].type = Some("jpeg")
        /\ pc[c] = "done" /\ outcome[c].raised = "none"
        /\ ops[c][i].op = "screenshot"
        /\ ops[c][i].arg.path.suffix = "jpeg"
        /\ outcome[c].value = Some(ops[c][i].arg.path)

\* The order of the awaited operations in html2pic, _ensure_context first.
PipelineOrder ==
    <<"start", "launch", "new_context", "new_page", "set_viewport", "goto",
      "screenshot", "close">>
Rank(op) == CHOOSE k \in DOMAIN PipelineOrder : PipelineOrder[k] = op

\* C14: the operations of one call come in the order of PipelineOrder, each
\* at most once and each after the success of the one before, but for close,
\* which also follows a failed goto or screenshot; set_viewport is there only
\* for a resolved width and is never awaited once goto is; a screenshot
\* follows a goto that succeeded on the same page; close is the last
\* operation of the call's page.
C14_LinearOrder ==
    \A c \in Calls :
        /\ \A i, j \in DOMAIN ops[c] :
               i < j =>
                   /\ Rank(ops[c][i].op) < Rank(ops[c][j].op)
                   /\ ~ops[c][i].ok =>
                          /\ ops[c][i].op \in {"goto", "screenshot"}
                          /\ ops[c][j].op = "close"
        /\ \A i \in DOMAIN ops[c] :
               /\ ops[c][i].op \in PageOps =>
                      /\ page[c] # None /\ ops[c][i].on = page[c]
                      /\ \E k \in 1..(i - 1) :
                             ops[c][k] = Entry("new_page", target[c], TRUE, page[c])
               /\ ops[c][i].op = "set_viewport" => viewport_width[c] # Nothing
               /\ ops[c][i].op = "goto" =>
                      (viewport_width[c] # Nothing
                           <=> ops[c][i - 1].op = "set_viewport")
               /\ ops[c][i].op = "screenshot" =>
                      ops[c][i - 1] = Entry("goto", page[c], TRUE, None)
               /\ ops[c][i].op = "close" =>
                      /\ i = Len(ops[c]) /\ pc[c] = "done"
                      /\ ops[c][i - 1].op \in {"goto", "screenshot"}
        /\ pc[c] = "set_viewport" => ~Has(c, "goto") /\ ~Has(c, "screenshot")
        /\ pc[c] \in {"goto", "screenshot", "close"} =>
               ops[c] # <<>> /\ Rank(ops[c][Len(ops[c])].op) < Rank(pc[c])

C14_Witness ==
    \E c \in Calls :
        /\ pc[c] = "done" /\ outcome[c].raised = "none"
        /\ Len(ops[c]) = Len(PipelineOrder)
        /\ \A i \in DOMAIN ops[c] : ops[c][i].op = PipelineOrder[i] /\ ops[c][i].ok

\* The state part of C15: without a callable is_closed no call finds the
\* context closed, and a call that found a context handle creates none and
\* opens its page on that handle.
C15_TreatedAsOpen ==
    ~isClosedCallable =>
        \A c \in Calls :
            /\ ~context_closed[c]
            /\ probed[c] # None =>
                   /\ pc[c] # "new_context" /\ ~Has(c, "new_context")
                   /\ pc[c] = "new_page" => target[c] = probed[c]
                   /\ \A i \in DOMAIN ops[c] :
                          ops[c][i].op = "new_page" => ops[c][i].on = probed[c]

\* The step part of C15: the step of _ensure_context that finds the handle
\* leaves it in place, open or not.
C15_HandleKept ==
    \A c \in Calls :
        (/\ ~isClosedCallable /\ context # None
         /\ pc[c] \in {"idle", "start", "launch"} /\ pc'[c] # pc[c]
         /\ pc'[c] \notin {"launch", "done"})
        => /\ pc'[c] = "new_page"
           /\ probed'[c] = context /\ target'[c] = context
           /\ context' = context /\ nContext' = nContext

\* C15: when self.context is set and has no callable is_closed,
\* _ensure_context takes it for open: it creates no context and keeps the
\* handle, whether that context is closed or not.
C15_ProbeUnavailableFailsOpen == []C15_TreatedAsOpen /\ [][C15_HandleKept]_vars

C15_Witness ==
    \E c \in Calls : \E i \in DOMAIN ops[c] :
        /\ ~isClosedCallable
        /\ probed[c] # None /\ probed[c] \in ctxClosed
        /\ context = probed[c]
        /\ ops[c][i] = Entry("new_page", probed[c], FALSE, None)
        /\ pc[c] = "done" /\ outcome[c].raised = "new_page"

\* C16: in every state self.context is set only if self.browser is, and
\* self.browser only if self.playwright is; each handle that is set is one
\* that start, launch or new_context returned.
C16_HandlesLayered ==
    /\ context # None => browser # None
    /\ browser # None => playwright # None
    /\ playwright \in {None} \cup 1..nStart
    /\ browser \in {None} \cup 1..nLaunch
    /\ context \in {None} \cup 1..nContext

C16_Witness ==
    /\ overlap
    /\ \E c \in Calls : pc[c] = "done" /\ outcome[c].raised = "new_context"
    /\ \E c \in Calls : pc[c] = "done" /\ outcome[c].raised = "launch"
    /\ playwright # None /\ browser # None /\ context = None

\* Call c raised the failure of the operation op of _ensure_context.
EnsureFailedAt(c, op) == pc[c] = "done" /\ outcome[c].raised = op

\* The first operation call c awaits, or has awaited, is op on handle h.
BeginsWith(c, op, h) ==
    /\ pc[c] # "idle"
    /\ IF ops[c] = <<>> THEN pc[c] = op /\ target[c] = h
       ELSE ops[c][1].op = op /\ ops[c][1].on = h

\* C17: when calls do not overlap, a call whose launch failed leaves the
\* engine handle in place and the next call begins at launch on that engine,
\* without a start; a call whose new_context failed leaves engine and
\* browser in place and the next call begins at new_context on that
\* browser, without start or launch.  No engine is started twice and no
\* browser launched twice.
C17_ResumesAtFailedStep ==
    ~overlap =>
        /\ nStart <= 1 /\ nLaunch <= 1
        /\ \A c \in Calls :
               /\ EnsureFailedAt(c, "launch") =>
                      /\ playwright # None
                      /\ ops[c][Len(ops[c])] = Entry("launch", playwright, FALSE, None)
                      /\ c + 1 \in Calls /\ pc[c + 1] # "idle" =>
                             /\ BeginsWith(c + 1, "launch", playwright)
                             /\ ~Has(c + 1, "start")
               /\ EnsureFailedAt(c, "new_context") =>
                      /\ playwright # None /\ browser # None
                      /\ ops[c][Len(ops[c])] = Entry("new_context", browser, FALSE, None)
                      /\ c + 1 \in Calls /\ pc[c + 1] # "idle" =>
                             /\ BeginsWith(c + 1, "new_context", browser)
                             /\ ~Has(c + 1, "start") /\ ~Has(c + 1, "launch")

C17_Witness ==
    /\ ~overlap
    /\ EnsureFailedAt(1, "launch") /\ Has(1, "start")
    /\ pc[2] = "done" /\ outcome[2].raised = "none"
    /\ ops[2][1].op = "launch" /\ ops[2][1].ok /\ ops[2][2].op = "new_context"
    /\ nStart = 1 /\ nLaunch = 1

\* The state part of C18: a call past _ensure_context awaits, or awaited,
\* new_page on a context handle that new_context returned.
C18_PageOnPresentContext ==
    \A c \in Calls :
        /\ pc[c] = "new_page" => target[c] \in 1..nContext
        /\ \A i \in DOMAIN ops[c] :
               ops[c][i].op = "new_page" => ops[c][i].on \in 1..nContext

\* The step part of C18: no step sets a handle back to None or to an older
\* handle (handles are numbered as they are made and None is below them
\* all), and the step that leaves _ensure_context reads self.context as it
\* is then.
C18_HandlesOnlyGrow ==
    /\ playwright' >= playwright
    /\ browser' >= browser
    /\ context' >= context
    /\ \A c \in Calls :
           pc[c] # "new_page" /\ pc'[c] = "new_page" =>
               target'[c] = context' /\ context' # None

\* C18: no step clears a session handle, a handle that is set is replaced
\* only by a newer one, and under every interleaving a call that has
\* returned from _ensure_context opens its page on a handle that is not None.
C18_HandlesNeverCleared == []C18_PageOnPresentContext /\ [][C18_HandlesOnlyGrow]_vars

C18_Witness ==
    /\ overlap
    /\ nContext > 1 /\ context = nContext
    /\ \E c \in Calls : \E i \in DOMAIN ops[c] :
           /\ ops[c][i].op = "new_page" /\ ops[c][i].ok
           /\ ops[c][i].on # context

=============================================================================
